---- MODULE Spec2Model ----
(***************************************************************************)
(* Model of the P1 datagram reader (src/p1/reader.rs).                     *)
(*                                                                         *)
(* A DatagramReader pulls bytes from a buffered byte source (io::BufRead)  *)
(* with fill_buf / consume and yields ReadDatagram values from next().     *)
(* The source delivers the stream in chunks of arbitrary size; every call  *)
(* of fill_buf is one step of the model, so that every chunking and every  *)
(* position of an I/O failure is explored.                                 *)
(***************************************************************************)
EXTENDS Integers, Sequences, FiniteSets, TLC

(***************************************************************************)
(* Bounds of the model.                                                    *)
(***************************************************************************)
\* longest byte stream of the unrestricted inputs
MaxLen == 6
\* longest payload of a well-formed frame
MaxPayload == 1
\* longest run of garbage bytes between frames
MaxGarbage == 2
\* most frames in an input made of well-formed frames only
MaxFrames == 2
\* next() calls answered by None after which the caller stops calling
MaxEnds == 2
\* I/O failures the byte source may report in one run
MaxFailures == 1

(***************************************************************************)
(* Bytes.                                                                  *)
(***************************************************************************)
\* b'/' : the start marker
SLASH == 47
\* b'!' : the terminator
BANG == 33
\* a byte that is neither a marker nor a hex digit ('z')
PlainBytes == {122}

IsHexDigit(b) == b \in (48..57) \cup (65..70) \cup (97..102)

Min(a, b) == IF a < b THEN a ELSE b

\* all sequences over S of length lo..hi
SeqsOf(S, lo, hi) == UNION {[1..n -> S] : n \in lo..hi}

RECURSIVE Flatten(_)
Flatten(ps) == IF ps = <<>> THEN <<>> ELSE Head(ps).bytes \o Flatten(Tail(ps))

(***************************************************************************)
(* ReadDatagram values and the Option returned by next().                  *)
(***************************************************************************)
Datagram(d) == [tag |-> "Datagram", bytes |-> d]
IncompleteDatagram(d) == [tag |-> "IncompleteDatagram", bytes |-> d]
None == [tag |-> "None", bytes |-> <<>>]

(***************************************************************************)
(* State.                                                                  *)
(***************************************************************************)
VARIABLES
    parts,              \* how the input was put together (never read by the reader)
    stream,             \* the bytes the underlying medium delivers, in order
    failuresLeft,       \* I/O failures the source may still report
    pos,                \* BufRead: number of bytes consumed so far
    filled,             \* BufRead: the buffer holds stream[pos+1 .. filled]
    pc,                 \* position of the current next() call
    read,               \* sync_to_datagram: local `read`
    datagram,           \* read_datagram / next_datagram: local `datagram`
    crc_bytes_needed,   \* read_crc_bytes: local `crc_bytes_needed`
    error,              \* DatagramReader.error
    returns,            \* what the next() calls returned so far, in order
    cursorAt,           \* value of pos when each next() call returned
    arg,                \* the value handed to verify_crc, parse or to_string
    answer,             \* what that call returned (Pending before it returns)
    origin,             \* the value arg was made from (Given when it is an input)
    overflow_checks     \* the build traps integer overflow (debug) or wraps (release)

\* the reader and its byte source
reader == <<parts, stream, failuresLeft, pos, filled, pc, read, datagram,
            crc_bytes_needed, error, returns, cursorAt>>

\* one call of a function of p1/mod.rs or obis.rs
call == <<arg, answer, origin, overflow_checks>>

vars == <<reader, call>>

\* no call has returned yet
Pending == [tag |-> "Pending"]
\* arg is an input, not made from another value
Given == [tag |-> "Given"]

(***************************************************************************)
(* Inputs.                                                                 *)
(***************************************************************************)
Part(k, b) == [kind |-> k, bytes |-> b]

\* '/' payload '!' 4 hex digits, payload free of '/' and '!'
Payloads == SeqsOf(PlainBytes, 0, MaxPayload)
\* the checksum field "1AB2"
Trailers == {<<49, 65, 66, 50>>}
Frames == {<<SLASH>> \o p \o <<BANG>> \o t : p \in Payloads, t \in Trailers}

\* bytes that are not the start marker
Garbage == SeqsOf({BANG} \cup PlainBytes, 1, MaxGarbage)

\* a frame cut before its terminator: '/' and a prefix of the payload
CutBodies == {<<SLASH>> \o p : p \in Payloads}
\* a frame cut after its terminator: 0 to 3 of the checksum bytes are present
CutCrcs == {<<SLASH>> \o p \o <<BANG>> \o SubSeq(t, 1, k) :
              p \in Payloads, t \in Trailers, k \in 0..3}

FrameParts == {Part("frame", f) : f \in Frames}
GarbageParts == {Part("garbage", g) : g \in Garbage}
CutParts == {Part("cut_body", c) : c \in CutBodies}
              \cup {Part("cut_crc", c) : c \in CutCrcs}

FrameRuns == UNION {[1..n -> FrameParts] : n \in 1..MaxFrames}
GarbageRuns == {<<f1, g, f2>> : f1 \in FrameParts, g \in GarbageParts, f2 \in FrameParts}
                 \cup {<<g, f1, f2>> : g \in GarbageParts, f1 \in FrameParts, f2 \in FrameParts}
CutRuns == {<<c, f>> : c \in CutParts, f \in FrameParts}

Scenarios == FrameRuns \cup GarbageRuns \cup CutRuns

\* every byte stream up to MaxLen over the two markers and the byte 'A'
\* (a hex digit, and an ordinary payload byte)
Alphabet == {SLASH, BANG, 65}
RawStreams == SeqsOf(Alphabet, 0, MaxLen)

(***************************************************************************)
(* DatagramReader::new over a fresh byte source.                           *)
(***************************************************************************)
NewReader ==
    /\ pos = 0
    /\ filled = 0
    /\ pc = "idle"
    /\ read = 0
    /\ datagram = <<>>
    /\ crc_bytes_needed = 0
    /\ error = "None"
    /\ returns = <<>>
    /\ cursorAt = <<>>

\* no function of p1/mod.rs or obis.rs is under study
NoCall ==
    /\ arg = Given
    /\ answer = Pending
    /\ origin = Given
    /\ overflow_checks = FALSE

Init ==
    /\ stream \in RawStreams
    /\ parts = <<Part("raw", stream)>>
    /\ failuresLeft = MaxFailures
    /\ NewReader
    /\ NoCall

InitFrames ==
    /\ parts \in Scenarios
    /\ stream = Flatten(parts)
    /\ failuresLeft = MaxFailures
    /\ NewReader
    /\ NoCall

(***************************************************************************)
(* The byte source (io::BufRead).                                          *)
(***************************************************************************)
\* fill_buf: the buffered bytes if there are any; otherwise the medium is
\* read: nothing at end of input, else a chunk of one or more bytes.
\* The result is the new end of the buffer.
FillBuf ==
    IF filled > pos THEN {filled}
    ELSE IF pos = Len(stream) THEN {pos}
    ELSE (pos + 1)..Len(stream)

\* the slice fill_buf returns
Available(f) == SubSeq(stream, pos + 1, f)

\* number of leading bytes of s that are not in Stop (take_while(..).count())
TakeWhileNotIn(s, Stop) ==
    CHOOSE n \in 0..Len(s) :
        /\ \A i \in 1..n : s[i] \notin Stop
        /\ n = Len(s) \/ s[n + 1] \in Stop

(***************************************************************************)
(* The pieces of the reader's loops.                                       *)
(***************************************************************************)
\* (variant: the terminator stops the synchronization as well)
SyncDroppedToAnyMarker(available) == TakeWhileNotIn(available, {SLASH, BANG})

\* sync_to_datagram: bytes in front of the first start marker
SyncDropped(available) == TakeWhileNotIn(available, {SLASH})

\* (variant: the loop also ends when the whole buffer was dropped)
SyncFoundOrBufferEnd(dropped_bytes, available_bytes) == dropped_bytes <= available_bytes

\* sync_to_datagram: a start marker is at the front of the buffer
SyncFound(dropped_bytes, available_bytes) == dropped_bytes < available_bytes

\* (variant: only the terminator ends the body)
DatagramBytesToTerminator(available) == TakeWhileNotIn(available, {BANG})

\* read_datagram: bytes in front of the first start marker or terminator
DatagramBytes(available) == TakeWhileNotIn(available, {SLASH, BANG})

\* read_datagram: the body ended (end of input, or a marker is next)
ReadDatagramDone(available_bytes, read_bytes) ==
    available_bytes = 0 \/ read_bytes < available_bytes

\* (variant: the terminator is not counted)
CrcBytesNeededWithoutTerminator == 5 - 1

\* read_crc_bytes: the terminator and the 4 checksum bytes
CrcBytesNeeded == 5

\* (variant: a start marker does not end the trailer)
CrcBytesPastStartMarker(available, needed) == Min(needed, Len(available))

\* read_crc_bytes: bytes in front of the first start marker, at most `needed`
CrcBytes(available, needed) ==
    TakeWhileNotIn(SubSeq(available, 1, Min(needed, Len(available))), {SLASH})

\* (variant: the loop also ends when the whole buffer was taken)
ReadCrcDoneAtBufferEnd(available_bytes, read_bytes, needed) ==
    available_bytes = 0 \/ read_bytes <= available_bytes \/ needed = 0

\* read_crc_bytes: the trailer ended
ReadCrcDone(available_bytes, read_bytes, needed) ==
    available_bytes = 0 \/ read_bytes < available_bytes \/ needed = 0

\* next_datagram: the byte 5 positions from the end is the terminator
\* (sequences are 1-based: index len - 5 of the code is Len(d) - 4 here)
IsComplete(d) == d[Len(d) - 4] = BANG

\* (variant: the sentinel is not recognised)
NeverSentinel(result) == FALSE

\* next: the zero-length IncompleteDatagram that stands for end of input
IsSentinel(result) == result.tag = "IncompleteDatagram" /\ Len(result.bytes) = 0

\* next: the Option made of next_datagram's Ok value
NextItem(result) == IF IsSentinel(result) THEN None ELSE result

(***************************************************************************)
(* How a next() call ends.                                                 *)
(***************************************************************************)
\* next() returns item; the locals of the call are gone
Return(item) ==
    /\ returns' = Append(returns, item)
    /\ cursorAt' = Append(cursorAt, pos')
    /\ pc' = "idle"
    /\ read' = 0
    /\ datagram' = <<>>
    /\ crc_bytes_needed' = 0

\* datagram[datagram.len() - 5] with fewer than 5 bytes: the subtraction
\* overflows (a panic in a debug build) or wraps to an index far beyond
\* the vector (a panic of the bounds check in a release build).
Panic ==
    /\ pc' = "panicked"
    /\ read' = 0
    /\ datagram' = <<>>
    /\ crc_bytes_needed' = 0
    /\ UNCHANGED <<returns, cursorAt>>

\* next_datagram after read_crc_bytes, and next() on its result
Inspect(d) ==
    IF Len(d) < 5
      THEN Panic
      ELSE IF IsComplete(d)
             THEN Return(NextItem(Datagram(d)))
             ELSE Return(NextItem(IncompleteDatagram(d)))

(***************************************************************************)
(* Actions: one per fill_buf call of a next() call.                        *)
(***************************************************************************)
\* the caller invokes next(); it stops calling after MaxEnds Nones
Call ==
    /\ pc = "idle"
    /\ Cardinality({i \in 1..Len(returns) : returns[i] = None}) < MaxEnds
    /\ pc' = "sync"
    /\ UNCHANGED <<parts, stream, failuresLeft, pos, filled, read, datagram,
                   crc_bytes_needed, error, returns, cursorAt>>
    /\ UNCHANGED call

\* fill_buf has to read the medium and the medium fails: `?` hands the
\* error to next(), which stores it and returns None
FillBufFails ==
    /\ pc \in {"sync", "read_first", "read_loop", "peek", "crc_first", "crc_loop"}
    /\ filled = pos
    /\ failuresLeft > 0
    /\ failuresLeft' = failuresLeft - 1
    /\ error' = "Some"
    /\ UNCHANGED <<pos, filled>>
    /\ Return(None)
    /\ UNCHANGED <<parts, stream>>
    /\ UNCHANGED call

\* one iteration of the loop of sync_to_datagram
Sync ==
    /\ pc = "sync"
    /\ \E f \in FillBuf :
         LET available == Available(f)
             available_bytes == Len(available)
             dropped_bytes == SyncDropped(available)
         IN  /\ filled' = f
             /\ IF available_bytes = 0
                  THEN /\ pos' = pos
                       /\ read' = 0
                       /\ pc' = "read_first"
                  ELSE /\ pos' = pos + dropped_bytes
                       /\ IF SyncFound(dropped_bytes, available_bytes)
                            THEN /\ read' = 0
                                 /\ pc' = "read_first"
                            ELSE /\ read' = read + dropped_bytes
                                 /\ pc' = "sync"
    /\ UNCHANGED <<parts, stream, failuresLeft, datagram, crc_bytes_needed,
                   error, returns, cursorAt>>
    /\ UNCHANGED call

\* read_datagram up to its loop
ReadFirst ==
    /\ pc = "read_first"
    /\ \E f \in FillBuf :
         /\ filled' = f
         /\ IF Len(Available(f)) = 0
              THEN /\ pos' = pos
                   /\ datagram' = <<>>
                   /\ pc' = "peek"
              ELSE /\ pos' = pos + 1
                   /\ datagram' = <<SLASH>>
                   /\ pc' = "read_loop"
    /\ UNCHANGED <<parts, stream, failuresLeft, read, crc_bytes_needed,
                   error, returns, cursorAt>>
    /\ UNCHANGED call

\* one iteration of the loop of read_datagram
ReadLoop ==
    /\ pc = "read_loop"
    /\ \E f \in FillBuf :
         LET available == Available(f)
             available_bytes == Len(available)
             read_bytes == DatagramBytes(available)
         IN  /\ filled' = f
             /\ datagram' = datagram \o SubSeq(available, 1, read_bytes)
             /\ pos' = pos + read_bytes
             /\ pc' = IF ReadDatagramDone(available_bytes, read_bytes)
                        THEN "peek" ELSE "read_loop"
    /\ UNCHANGED <<parts, stream, failuresLeft, read, crc_bytes_needed,
                   error, returns, cursorAt>>
    /\ UNCHANGED call

\* next_datagram: is there a trailer to read?
Peek ==
    /\ pc = "peek"
    /\ \E f \in FillBuf :
         LET available == Available(f)
         IN  /\ filled' = f
             /\ pos' = pos
             /\ IF Len(available) = 0 \/ available[1] = SLASH
                  THEN Return(NextItem(IncompleteDatagram(datagram)))
                  ELSE /\ pc' = "crc_first"
                       /\ UNCHANGED <<read, datagram, crc_bytes_needed,
                                      returns, cursorAt>>
    /\ UNCHANGED <<parts, stream, failuresLeft, error>>
    /\ UNCHANGED call

\* read_crc_bytes up to its loop
CrcFirst ==
    /\ pc = "crc_first"
    /\ \E f \in FillBuf :
         /\ filled' = f
         /\ pos' = pos
         /\ IF Len(Available(f)) = 0
              THEN Inspect(datagram)
              ELSE /\ crc_bytes_needed' = CrcBytesNeeded
                   /\ pc' = "crc_loop"
                   /\ UNCHANGED <<read, datagram, returns, cursorAt>>
    /\ UNCHANGED <<parts, stream, failuresLeft, error>>
    /\ UNCHANGED call

\* one iteration of the loop of read_crc_bytes; when it returns,
\* next_datagram inspects the frame and next() returns
CrcLoop ==
    /\ pc = "crc_loop"
    /\ \E f \in FillBuf :
         LET available == Available(f)
             available_bytes == Len(available)
             read_bytes == CrcBytes(available, crc_bytes_needed)
             extended == datagram \o SubSeq(available, 1, read_bytes)
             needed == crc_bytes_needed - read_bytes
         IN  /\ filled' = f
             /\ pos' = pos + read_bytes
             /\ IF ReadCrcDone(available_bytes, read_bytes, needed)
                  THEN Inspect(extended)
                  ELSE /\ datagram' = extended
                       /\ crc_bytes_needed' = needed
                       /\ pc' = "crc_loop"
                       /\ UNCHANGED <<read, returns, cursorAt>>
    /\ UNCHANGED <<parts, stream, failuresLeft, error>>
    /\ UNCHANGED call

Next ==
    \/ Call
    \/ FillBufFails
    \/ Sync
    \/ ReadFirst
    \/ ReadLoop
    \/ Peek
    \/ CrcFirst
    \/ CrcLoop

\* every byte stream up to MaxLen
Spec == Init /\ [][Next]_vars

\* inputs put together from frames, garbage and cut frames
SpecFrames == InitFrames /\ [][Next]_vars

TypeOK ==
    /\ pos \in 0..Len(stream)
    /\ filled \in pos..Len(stream)
    /\ pc \in {"idle", "sync", "read_first", "read_loop", "peek",
               "crc_first", "crc_loop", "panicked"}
    /\ Len(cursorAt) = Len(returns)

(***************************************************************************)
(* The reader on a source that hands over the whole rest of the stream     *)
(* at once (io::BufReader over a slice, as in the tests without            *)
(* TickleReader): every loop finds its delimiter, or the end of input,     *)
(* in the first buffer it is given.                                        *)
(***************************************************************************)
Rest(p) == SubSeq(stream, p + 1, Len(stream))

\* next() called with the cursor at p: the item it returns and the cursor
\* afterwards (tag "Panic" when the inspection of the frame faults)
UnsplitNext(p) ==
    LET p1 == p + SyncDropped(Rest(p))
        atEnd == Len(Rest(p1)) = 0
        read_bytes == IF atEnd THEN 0 ELSE DatagramBytes(Rest(p1 + 1))
        d == IF atEnd THEN <<>>
             ELSE <<SLASH>> \o SubSeq(Rest(p1 + 1), 1, read_bytes)
        p2 == IF atEnd THEN p1 ELSE p1 + 1 + read_bytes
        crc_bytes == CrcBytes(Rest(p2), CrcBytesNeeded)
        extended == d \o SubSeq(Rest(p2), 1, crc_bytes)
    IN  IF Len(Rest(p2)) = 0 \/ Rest(p2)[1] = SLASH
          THEN [item |-> NextItem(IncompleteDatagram(d)), pos |-> p2]
          ELSE IF Len(extended) < 5
                 THEN [item |-> [tag |-> "Panic", bytes |-> <<>>], pos |-> p2 + crc_bytes]
                 ELSE IF IsComplete(extended)
                        THEN [item |-> NextItem(Datagram(extended)), pos |-> p2 + crc_bytes]
                        ELSE [item |-> NextItem(IncompleteDatagram(extended)), pos |-> p2 + crc_bytes]

\* the outcomes of repeated next() calls from cursor p up to the first None
RECURSIVE UnsplitOutcomes(_)
UnsplitOutcomes(p) ==
    LET r == UnsplitNext(p)
    IN  IF r.item.tag \in {"None", "Panic"}
          THEN <<>>
          ELSE <<r.item>> \o UnsplitOutcomes(r.pos)

(***************************************************************************)
(* Vocabulary of the properties.                                           *)
(***************************************************************************)
\* the byte source has reported no I/O failure so far
NoFailure == error = "None"

Kinds(ps) == [i \in 1..Len(ps) |-> ps[i].kind]

\* the outcomes returned so far are the first ones of `expected`, in order,
\* and every call after them returned None
OutcomesAre(expected) ==
    \A i \in 1..Len(returns) :
        returns[i] = IF i <= Len(expected) THEN expected[i] ELSE None

\* the sequence has ended: next() has returned None
Ended == returns /= <<>> /\ returns[Len(returns)] = None

Outcomes == {i \in 1..Len(returns) : returns[i] /= None}

(***************************************************************************)
(* Properties of the frame assembler.                                      *)
(***************************************************************************)

\* C1: for every byte stream and every chunking, a next() call returns an
\* item or None and never faults: the byte 5 positions from the end of
\* the frame inspected by next_datagram is always inside the frame.
C1_NextNeverFaults == pc /= "panicked"

\* C2: for an input made of well-formed frames (with or without garbage
\* between them), whatever chunks the source delivers, the outcomes of
\* the next() calls are those of the reader on the unsplit input, and
\* None after them.
C2_ChunkingInvariance ==
    (NoFailure /\ \A i \in 1..Len(parts) : parts[i].kind \in {"frame", "garbage"})
        => /\ pc /= "panicked"
           /\ OutcomesAre(UnsplitOutcomes(0))

\* the first frame was returned and a chunk boundary lies inside the
\* checksum of the second one
C2_Witness ==
    /\ NoFailure
    /\ Kinds(parts) = <<"frame", "frame">>
    /\ Len(returns) = 1
    /\ returns[1].tag = "Datagram"
    /\ pc = "crc_loop"
    /\ crc_bytes_needed \in 1..3
    /\ filled = pos

\* C3 as claimed: every Datagram starts with '/' and ends with '!'
\* followed by exactly 4 ASCII hex digits.
C3_FrameEndsWithHexChecksum ==
    \A i \in 1..Len(returns) :
        returns[i].tag = "Datagram" =>
            LET d == returns[i].bytes
            IN  /\ Len(d) >= 6
                /\ d[1] = SLASH
                /\ d[Len(d) - 4] = BANG
                /\ \A k \in (Len(d) - 3)..Len(d) : IsHexDigit(d[k])

\* C3 as amended: every Datagram starts with '/', its first '!' is the
\* byte 5 positions from its end, and the 4 bytes after that '!' are any
\* bytes other than '/'.
C3_FrameEndsWithFourBytes ==
    \A i \in 1..Len(returns) :
        returns[i].tag = "Datagram" =>
            LET d == returns[i].bytes
            IN  /\ Len(d) >= 6
                /\ d[1] = SLASH
                /\ d[Len(d) - 4] = BANG
                /\ \A k \in 1..(Len(d) - 5) : d[k] /= BANG
                /\ \A k \in 2..Len(d) : d[k] /= SLASH

\* a Datagram whose trailer holds a byte that is no hex digit was returned
C3_Witness ==
    \E i \in 1..Len(returns) :
        /\ returns[i].tag = "Datagram"
        /\ \E k \in (Len(returns[i].bytes) - 3)..Len(returns[i].bytes) :
               ~IsHexDigit(returns[i].bytes[k])

\* C4: once the byte source has reported an I/O failure, the call that met
\* it returned None and every later next() call returns None.
C4_FailureEndsSequence ==
    [][(error' = "Some") =>
          \A i \in (Len(returns) + 1)..Len(returns') : returns'[i] = None]_vars

\* C5: for an input that is n >= 1 well-formed frames and nothing else,
\* the i-th next() call returns the i-th frame as a Datagram, byte for
\* byte, and the calls after the n-th return None.
C5_FramesInFramesOut ==
    (NoFailure /\ \A i \in 1..Len(parts) : parts[i].kind = "frame")
        => /\ pc /= "panicked"
           /\ OutcomesAre([i \in 1..Len(parts) |-> Datagram(parts[i].bytes)])

\* two frames were returned, then None
C5_Witness ==
    /\ NoFailure
    /\ Kinds(parts) = <<"frame", "frame">>
    /\ Len(returns) = 3
    /\ returns[2].tag = "Datagram"
    /\ Ended

\* C6: garbage free of '/' between two frames, or before the first one,
\* is dropped: no fault, and the outcomes are the two frames, byte for
\* byte, then None.
C6_GarbageDropped ==
    (NoFailure /\ Kinds(parts) \in {<<"frame", "garbage", "frame">>,
                                    <<"garbage", "frame", "frame">>})
        => /\ pc /= "panicked"
           /\ LET fs == IF parts[1].kind = "garbage"
                          THEN <<parts[2], parts[3]>>
                          ELSE <<parts[1], parts[3]>>
              IN  OutcomesAre(<<Datagram(fs[1].bytes), Datagram(fs[2].bytes)>>)

\* garbage holding a terminator stood between the two frames returned
C6_Witness ==
    /\ NoFailure
    /\ Kinds(parts) = <<"frame", "garbage", "frame">>
    /\ BANG \in {parts[2].bytes[k] : k \in 1..Len(parts[2].bytes)}
    /\ Len(returns) = 3
    /\ Ended

\* C7: a frame cut before its terminator and followed by a well-formed
\* frame gives an IncompleteDatagram holding exactly the cut prefix, then
\* a Datagram equal to the following frame, for every chunking.
C7_CutBodyThenFrame ==
    (NoFailure /\ Kinds(parts) = <<"cut_body", "frame">>)
        => /\ pc /= "panicked"
           /\ OutcomesAre(<<IncompleteDatagram(parts[1].bytes),
                            Datagram(parts[2].bytes)>>)

\* a cut frame with some payload and the frame after it were both returned
C7_Witness ==
    /\ NoFailure
    /\ Kinds(parts) = <<"cut_body", "frame">>
    /\ Len(parts[1].bytes) > 1
    /\ Len(returns) = 2
    /\ returns[1].tag = "IncompleteDatagram"
    /\ returns[2].tag = "Datagram"

\* C8: a frame cut after its terminator, with 0 to 3 checksum bytes, and
\* followed by a well-formed frame gives an IncompleteDatagram holding
\* exactly the cut prefix, then a Datagram equal to the following frame,
\* for every length of the prefix.
C8_CutCrcThenFrame ==
    (NoFailure /\ Kinds(parts) = <<"cut_crc", "frame">>)
        => /\ pc /= "panicked"
           /\ OutcomesAre(<<IncompleteDatagram(parts[1].bytes),
                            Datagram(parts[2].bytes)>>)

\* C9: next() never returns a zero-length outcome, and a source without
\* any '/' (the empty source included) gives no outcome at all.
C9_NoSentinelLeaks ==
    /\ \A i \in Outcomes : Len(returns[i].bytes) > 0
    /\ (\A k \in 1..Len(stream) : stream[k] /= SLASH) => Outcomes = {}

\* a source holding only bytes other than '/' was read to its end
C9_Witness ==
    /\ NoFailure
    /\ stream /= <<>>
    /\ \A k \in 1..Len(stream) : stream[k] /= SLASH
    /\ pos = Len(stream)
    /\ Ended

Some(x) == <<x>>
Absent == <<>>

\* ReadDatagram::InvalidCrc { datagram, expected_crc, actual_crc }
InvalidCrc(d, e, a) ==
    [tag |-> "InvalidCrc", datagram |-> d, expected_crc |-> e, actual_crc |-> a]

\* the call did not return: it panicked
Panicked == [tag |-> "Panicked"]

\* bitwise exclusive or of two naturals
RECURSIVE Xor(_, _)
Xor(a, b) ==
    IF a = 0 THEN b
    ELSE IF b = 0 THEN a
    ELSE ((a + b) % 2) + 2 * Xor(a \div 2, b \div 2)

\* crc16::USB, the reflected polynomial 0xA001
USB == 40961

\* crc::crc16::make_table, reflected: one of the 8 shifts of a table entry
TableShift(value, poly) ==
    IF value % 2 = 1 THEN Xor(value \div 2, poly) ELSE value \div 2

\* crc::crc16::make_table, reflected: entry i of the table
RECURSIVE TableEntry(_, _, _)
TableEntry(value, poly, shifts) ==
    IF shifts = 0 THEN value
    ELSE TableEntry(TableShift(value, poly), poly, shifts - 1)

\* crc::crc16::update with CalcType::Reverse:
\* fold (acc >> 8) ^ table[(acc ^ x) & 0xFF] over the bytes
RECURSIVE Update(_, _, _)
Update(value, poly, bytes) ==
    IF bytes = <<>> THEN value
    ELSE Update(Xor(value \div 256,
                    TableEntry(Xor(value, Head(bytes)) % 256, poly, 8)),
                poly, Tail(bytes))

\* Digest::new_custom(poly, initial, final_xor, Reverse), write(data), sum16()
Digest(poly, initial, final_xor, data) ==
    Xor(Update(initial, poly, data), final_xor)

\* value of an ASCII hex digit (char::to_digit(16))
HexValue(b) ==
    IF b \in 48..57 THEN b - 48
    ELSE IF b \in 65..70 THEN b - 55
    ELSE b - 87

RECURSIVE Radix16(_, _)
Radix16(digits, acc) ==
    IF digits = <<>> THEN acc
    ELSE Radix16(Tail(digits), 16 * acc + HexValue(Head(digits)))

\* u16::from_str_radix(s, 16) on ASCII text: an optional '+' sign, then
\* one or more hex digits of either case; the value has to fit 16 bits
FromStrRadix16(text) ==
    LET digits == IF text /= <<>> /\ text[1] = 43 THEN Tail(text) ELSE text
    IN  IF digits = <<>> \/ \E i \in 1..Len(digits) : ~IsHexDigit(digits[i])
          THEN Absent
          ELSE IF Radix16(digits, 0) > 65535 THEN Absent
               ELSE Some(Radix16(digits, 0))

\* parse_crc_text: a byte above 127 is either invalid UTF-8 (from_utf8
\* fails) or part of a character that is no digit (from_str_radix fails)
parse_crc_text(crc) ==
    IF \E i \in 1..Len(crc) : crc[i] > 127
      THEN Absent
      ELSE FromStrRadix16(crc)

\* (variant: the terminator is left out of the checksummed bytes)
CrcDataWithoutTerminator(d) == SubSeq(d, 1, Len(d) - 5)

\* verify_datagram_crc: &datagram[..datagram.len() - 4]
CrcData(d) == SubSeq(d, 1, Len(d) - 4)

\* verify_datagram_crc: &datagram[datagram.len() - 4..]
CrcText(d) == SubSeq(d, Len(d) - 3, Len(d))

\* (variant: the checksum field is cut off a verified datagram)
CheckedWithoutCrc(d, expected_crc, actual_crc) ==
    IF expected_crc /= Absent /\ expected_crc[1] = actual_crc
      THEN Datagram(CrcData(d))
      ELSE InvalidCrc(d, expected_crc, actual_crc)

\* (variant: any checksum field that parses is accepted)
CheckedByPresence(d, expected_crc, actual_crc) ==
    IF expected_crc /= Absent
      THEN Datagram(d)
      ELSE InvalidCrc(d, expected_crc, actual_crc)

\* verify_datagram_crc: the match on expected_crc
Checked(d, expected_crc, actual_crc) ==
    IF expected_crc /= Absent /\ expected_crc[1] = actual_crc
      THEN Datagram(d)
      ELSE InvalidCrc(d, expected_crc, actual_crc)

\* verify_datagram_crc; with fewer than 4 bytes datagram.len() - 4
\* overflows (debug build) or wraps to a slice end beyond the datagram
\* (release build): a panic in both
verify_datagram_crc(d) ==
    IF Len(d) < 4
      THEN Panicked
      ELSE Checked(d, parse_crc_text(CrcText(d)), Digest(USB, 0, 0, CrcData(d)))

verify_crc(x) ==
    IF x.tag = "Datagram" THEN verify_datagram_crc(x.bytes) ELSE x

(***************************************************************************)
(* Inputs of the verifier.                                                 *)
(***************************************************************************)
\* longest payload of the frames handed to the verifier
MaxBody == 2

\* ASCII hex digit of n, in upper or lower case
HexDigit(n, upper) ==
    IF n < 10 THEN 48 + n ELSE IF upper THEN 55 + n ELSE 87 + n

\* the 4 hex digits of a 16-bit value
Hex4(v, upper) ==
    <<HexDigit(v \div 4096, upper), HexDigit((v \div 256) % 16, upper),
      HexDigit((v \div 16) % 16, upper), HexDigit(v % 16, upper)>>

\* '/' payload '!' with payloads of the digits '0' and '4'
CrcDatas == {<<SLASH>> \o p \o <<BANG>> : p \in SeqsOf({48, 52}, 0, MaxBody)}

\* checksum fields for the data d: the right one in both cases, its last
\* 3 digits behind a '+', and fields that are wrong or no hex digits:
\* "1AB2", " 1AB", "-1AB", "12G4", "e'1A" (UTF-8), and an invalid UTF-8 byte
CrcTexts(d) ==
    LET v == Digest(USB, 0, 0, d)
    IN  {Hex4(v, TRUE), Hex4(v, FALSE), <<43>> \o Tail(Hex4(v, TRUE)),
         <<49, 65, 66, 50>>, <<32, 49, 65, 66>>, <<45, 49, 65, 66>>,
         <<49, 50, 71, 52>>, <<195, 169, 49, 65>>, <<255, 49, 65, 66>>}

VerifierFrames == UNION {{d \o t : t \in CrcTexts(d)} : d \in CrcDatas}

\* byte sequences too short to hold a checksum field
ShortFrames == {SubSeq(<<SLASH, BANG, 49>>, 1, n) : n \in 0..3}

VerifierInputs ==
    {Datagram(f) : f \in VerifierFrames \cup ShortFrames}
      \cup {IncompleteDatagram(f) : f \in ShortFrames \cup {<<SLASH, 48, BANG, 49, 65>>}}
      \cup {InvalidCrc(<<SLASH, BANG, 49, 65, 66, 50>>, e, 10460) :
              e \in {Absent, Some(6834)}}

\* values written over a byte of a frame (15 as in the test, '/', '0', '4')
CorruptBytes == {15, SLASH, 48, 52}

InitVerify ==
    /\ parts = <<>>
    /\ stream = <<>>
    /\ failuresLeft = 0
    /\ NewReader
    /\ arg \in VerifierInputs
    /\ answer = Pending
    /\ origin = Given
    /\ overflow_checks = FALSE

\* verify_crc(arg)
VerifyCrc ==
    /\ arg /= Given
    /\ answer = Pending
    /\ answer' = verify_crc(arg)
    /\ UNCHANGED <<arg, origin, overflow_checks, reader>>

\* one byte in front of the checksum field of a datagram that verified is
\* overwritten, and the result is handed to verify_crc again
CorruptDatagram ==
    /\ origin = Given
    /\ arg.tag = "Datagram"
    /\ answer = arg
    /\ \E i \in 1..(Len(arg.bytes) - 4), b \in CorruptBytes :
         /\ b /= arg.bytes[i]
         /\ arg' = Datagram([arg.bytes EXCEPT ![i] = b])
    /\ origin' = arg
    /\ answer' = Pending
    /\ UNCHANGED <<overflow_checks, reader>>

NextVerify ==
    \/ VerifyCrc
    \/ CorruptDatagram

\* verify_crc on given values, and on corrupted copies of verified frames
SpecVerify == InitVerify /\ [][NextVerify]_vars

(***************************************************************************)
(* Properties of the checksum verifier.                                    *)
(***************************************************************************)
\* CRC-16 with the reflected polynomial 0xA001, one bit at a time
RECURSIVE RefCrcBits(_, _)
RefCrcBits(crc, bits) ==
    IF bits = 0 THEN crc
    ELSE RefCrcBits(IF crc % 2 = 1 THEN Xor(crc \div 2, 40961) ELSE crc \div 2,
                    bits - 1)

\* CRC-16 (polynomial 0xA001 reflected, initial value 0, final XOR 0)
RECURSIVE RefCrc(_, _)
RefCrc(crc, bytes) ==
    IF bytes = <<>> THEN crc
    ELSE RefCrc(RefCrcBits(Xor(crc, Head(bytes)), 8), Tail(bytes))

\* the bytes of a frame in front of its last 4
Checksummed(d) == SubSeq(d, 1, Len(d) - 4)

\* the last 4 bytes of a frame
Trailer(d) == SubSeq(d, Len(d) - 3, Len(d))

\* verify_crc was given a complete frame of at least 4 bytes and returned
VerifiedFrame ==
    /\ arg.tag = "Datagram"
    /\ Len(arg.bytes) >= 4
    /\ answer /= Pending

\* C11: for a complete frame (of 4 bytes or more) verify_crc returns
\* Datagram exactly when the last 4 bytes parse to the CRC-16 of the bytes
\* in front of them, '/' through '!'; otherwise it returns InvalidCrc with
\* that CRC as actual_crc and the parsed trailer (or None) as expected_crc
C11_VerifiedIffCrcMatches ==
    VerifiedFrame =>
        LET actual == RefCrc(0, Checksummed(arg.bytes))
            expected == parse_crc_text(Trailer(arg.bytes))
        IN  IF expected = Some(actual)
              THEN answer = Datagram(arg.bytes)
              ELSE answer = InvalidCrc(arg.bytes, expected, actual)

\* a frame with a payload was verified, and so was its lower-case spelling
C11_Witness ==
    /\ VerifiedFrame
    /\ Len(arg.bytes) = 2 + MaxBody + 4
    /\ answer = arg
    /\ \E i \in 1..4 : Trailer(arg.bytes)[i] \in 97..102

\* C12: after one byte in front of the last 4 of a frame that verified is
\* changed, verify_crc returns InvalidCrc whose actual_crc is the CRC of the
\* changed bytes and whose expected_crc is the value of the untouched
\* trailer, and the two differ
C12_CorruptionDetected ==
    (origin /= Given /\ answer /= Pending) =>
        LET actual == RefCrc(0, Checksummed(arg.bytes))
            expected == RefCrc(0, Checksummed(origin.bytes))
        IN  /\ Trailer(arg.bytes) = Trailer(origin.bytes)
            /\ answer = InvalidCrc(arg.bytes, Some(expected), actual)
            /\ actual /= expected

\* the start marker of a verified frame was overwritten and the copy verified
C12_Witness ==
    /\ origin /= Given
    /\ answer /= Pending
    /\ arg.bytes[1] /= origin.bytes[1]
    /\ Len(arg.bytes) > 6

\* C13: when the last 4 bytes of the frame are not 4 ASCII hex digits the
\* result is InvalidCrc with expected_crc None (never Datagram)
C13_NonHexTrailerIsAbsent ==
    (/\ VerifiedFrame
     /\ \E i \in 1..4 : ~IsHexDigit(Trailer(arg.bytes)[i]))
        => /\ answer.tag = "InvalidCrc"
           /\ answer.expected_crc = Absent

\* C14: verify_crc returns a value for every complete frame it is given,
\* also for one of fewer than 4 bytes: it never panics
C14_VerifyNeverFaults == answer /= Panicked

\* the bytes a returned value carries
BytesOf(x) == IF x.tag = "InvalidCrc" THEN x.datagram ELSE x.bytes

\* C15: verify_crc returns an IncompleteDatagram or InvalidCrc value as it
\* is, and the Datagram or InvalidCrc made from a Datagram carries exactly
\* the bytes given, checksum digits included
C15_BytesPreserved ==
    (answer /= Pending /\ answer /= Panicked) =>
        /\ arg.tag /= "Datagram" => answer = arg
        /\ arg.tag = "Datagram" =>
             /\ answer.tag \in {"Datagram", "InvalidCrc"}
             /\ BytesOf(answer) = arg.bytes

\* a frame was verified and came back with its checksum digits
C15_Witness ==
    /\ VerifiedFrame
    /\ answer.tag = "Datagram"
    /\ Len(answer.bytes) = Len(Checksummed(arg.bytes)) + 4
    /\ origin = Given

(***************************************************************************)
(* The OBIS identifier grammar (src/obis.rs), written with the parser      *)
(* combinators of nom 4 over &[u8]: a plain byte slice is a streaming      *)
(* input (at_eof() is false), so a combinator that reaches the end of the  *)
(* text before it can decide answers Incomplete.                           *)
(***************************************************************************)
\* IResult: Ok((rest, value)), Err(Err::Error), Err(Err::Incomplete)
Ok(rest, val) == [st |-> "Ok", rest |-> rest, val |-> val]
Error == [st |-> "Error"]
Incomplete == [st |-> "Incomplete"]
\* the parser did not return: buf_to_int panicked
Overflowed == [st |-> "Panicked"]

\* struct ObisIdentifier
ObisIdentifier(a, b, c, d, e, f) ==
    [a |-> a, b |-> b, c |-> c, d |-> d, e |-> e, f |-> f]

\* Option<ObisIdentifier> returned by parse
SomeId(id) == [tag |-> "Some", id |-> id]
NoId == [tag |-> "None"]
\* a &str or String
Text(bytes) == [tag |-> "Text", bytes |-> bytes]
\* an ObisIdentifier handed to to_string
Identifier(id) == [tag |-> "Identifier", id |-> id]

is_digit(b) == b \in 48..57

\* buf_to_int::<u8>: sum *= 10; sum += digit. Past 255 the arithmetic
\* panics when the build checks overflow and wraps when it does not
RECURSIVE buf_to_int(_, _, _)
buf_to_int(s, sum, checks) ==
    IF s = <<>> THEN [panicked |-> FALSE, sum |-> sum]
    ELSE LET product == sum * 10
             total == (product % 256) + (Head(s) - 48)
         IN  IF checks /\ (product > 255 \/ total > 255)
               THEN [panicked |-> TRUE, sum |-> sum]
               ELSE buf_to_int(Tail(s), total % 256, checks)

\* input.position(|c| !is_digit(c)): index (from 0) of the first byte
\* that is no digit, Len(input) when there is none
RECURSIVE Position(_)
Position(input) ==
    IF input = <<>> \/ ~is_digit(Head(input)) THEN 0
    ELSE 1 + Position(Tail(input))

\* take_while_m_n!(m, n, is_digit)
take_while_m_n(m, n, input) ==
    LET idx == Position(input)
        len == Len(input)
    IN  IF idx < len
          THEN IF idx >= m
                 THEN Ok(SubSeq(input, Min(idx, n) + 1, len),
                         SubSeq(input, 1, Min(idx, n)))
                 ELSE Error
          ELSE IF len >= n
                 THEN Ok(SubSeq(input, n + 1, len), SubSeq(input, 1, n))
                 ELSE Incomplete

\* tag!(t): compares the bytes both have; a text shorter than the tag
\* that agrees so far is Incomplete
tag(t, input) ==
    LET len == Min(Len(t), Len(input))
    IN  IF SubSeq(input, 1, len) /= SubSeq(t, 1, len) THEN Error
        ELSE IF Len(input) < Len(t) THEN Incomplete
        ELSE Ok(SubSeq(input, Len(t) + 1, Len(input)), t)

\* map!(take_while_m_n!(1, 3, is_digit), buf_to_int)
value_group(input) ==
    LET digits == take_while_m_n(1, 3, input)
    IN  IF digits.st /= "Ok" THEN digits
        ELSE LET value == buf_to_int(digits.val, 0, overflow_checks)
             IN  IF value.panicked THEN Overflowed
                 ELSE Ok(digits.rest, value.sum)

value_group_a_delimiter(input) == tag(<<45>>, input)
value_group_b_delimiter(input) == tag(<<58>>, input)
value_group_other_delimiter(input) == tag(<<46>>, input)

\* do_parse!(value: value_group >> _delimiter: delimiter >> (value))
GroupThenDelimiter(value, delimiter) ==
    IF value.st /= "Ok" THEN value
    ELSE IF delimiter.st /= "Ok" THEN delimiter
    ELSE Ok(delimiter.rest, value.val)

value_group_a(input) ==
    LET value == value_group(input)
    IN  GroupThenDelimiter(value,
          IF value.st = "Ok" THEN value_group_a_delimiter(value.rest) ELSE Error)

value_group_b(input) ==
    LET value == value_group(input)
    IN  GroupThenDelimiter(value,
          IF value.st = "Ok" THEN value_group_b_delimiter(value.rest) ELSE Error)

value_group_other(input) ==
    LET value == value_group(input)
    IN  GroupThenDelimiter(value,
          IF value.st = "Ok" THEN value_group_other_delimiter(value.rest) ELSE Error)

\* do_parse!(_delimiter: value_group_other_delimiter >> value: value_group >> (value))
value_group_f(input) ==
    LET delimiter == value_group_other_delimiter(input)
    IN  IF delimiter.st /= "Ok" THEN delimiter ELSE value_group(delimiter.rest)

\* opt!: Err(Err::Error) becomes None with nothing consumed; Incomplete
\* (and a panic) pass through
opt(result, input) ==
    IF result.st = "Ok" THEN Ok(result.rest, Some(result.val))
    ELSE IF result.st = "Error" THEN Ok(input, Absent)
    ELSE result

\* f.unwrap_or(255u8)
UnwrapOr(option, default) == IF option = Absent THEN default ELSE option[1]

obis_identifier(input) ==
    LET a == opt(value_group_a(input), input) IN
    IF a.st /= "Ok" THEN a ELSE
    LET b == opt(value_group_b(a.rest), a.rest) IN
    IF b.st /= "Ok" THEN b ELSE
    LET c == value_group_other(b.rest) IN
    IF c.st /= "Ok" THEN c ELSE
    LET d == value_group_other(c.rest) IN
    IF d.st /= "Ok" THEN d ELSE
    LET e == value_group(d.rest) IN
    IF e.st /= "Ok" THEN e ELSE
    LET f == opt(value_group_f(e.rest), e.rest) IN
    IF f.st /= "Ok" THEN f ELSE
    Ok(f.rest, ObisIdentifier(a.val, b.val, c.val, d.val, e.val,
                              UnwrapOr(f.val, 255)))

\* ObisIdentifier::parse: Ok((_, id)) => Some(id), Err(_) => None
parse(id) ==
    LET result == obis_identifier(id)
    IN  IF result.st = "Ok" THEN SomeId(result.val)
        ELSE IF result.st = "Panicked" THEN Panicked
        ELSE NoId

\* "{}" of a u8: decimal digits without leading zeros
RECURSIVE Decimal(_)
Decimal(n) ==
    IF n < 10 THEN <<48 + n>> ELSE Decimal(n \div 10) \o <<48 + (n % 10)>>

\* impl fmt::Display for ObisIdentifier
fmt(id) ==
    (IF id.a /= Absent THEN Decimal(id.a[1]) \o <<45>> ELSE <<>>)
      \o (IF id.b /= Absent THEN Decimal(id.b[1]) \o <<58>> ELSE <<>>)
      \o Decimal(id.c) \o <<46>> \o Decimal(id.d) \o <<46>>
      \o Decimal(id.e) \o <<46>> \o Decimal(id.f)

(***************************************************************************)
(* Inputs of the OBIS grammar.                                             *)
(***************************************************************************)
\* most characters that follow an identifier in a text
MaxExtra == 1

\* digit groups: "7", "21", "255" and "256"
GroupTexts == {<<55>>, <<50, 49>>, <<50, 53, 53>>, <<50, 53, 54>>}

\* an optional group with its delimiter behind it
OptionalBefore(groups, delimiter) ==
    {<<>>} \cup {g \o <<delimiter>> : g \in groups}

\* texts [a '-'] [b ':'] c '.' d '.' e ['.' f] followed by up to MaxExtra
\* characters 'x' or '1'; the empty text; and the texts of the tests
Texts ==
    {a \o b \o c \o <<46>> \o d \o <<46>> \o e \o f \o x :
        a \in OptionalBefore({<<49>>, <<50, 53, 54>>}, 45),
        b \in OptionalBefore({<<48>>, <<50, 53, 54>>}, 58),
        c \in GroupTexts, d \in {<<55>>, <<50, 53, 54>>}, e \in GroupTexts,
        f \in {<<>>} \cup {<<46>> \o g : g \in GroupTexts},
        x \in SeqsOf({120, 49}, 0, MaxExtra)}
      \cup {<<>>,
            <<49, 45, 50, 45, 57, 54, 46, 55, 46, 50, 49, 46, 50, 53, 53>>,
            <<49, 45, 48, 58, 57, 54, 46, 55, 46, 50, 49>>,
            <<49, 45, 48, 58, 57, 54, 46, 55, 46, 50, 49, 46, 50, 53, 53>>}

\* values of a value group
GroupValues == {0, 7, 21, 255}

Identifiers ==
    {ObisIdentifier(a, b, c, d, e, f) :
        a \in {Absent} \cup {Some(v) : v \in {1, 255}},
        b \in {Absent} \cup {Some(v) : v \in {0, 255}},
        c \in GroupValues, d \in GroupValues, e \in GroupValues,
        f \in GroupValues}

InitObis ==
    /\ parts = <<>>
    /\ stream = <<>>
    /\ failuresLeft = 0
    /\ NewReader
    /\ arg \in {Text(t) : t \in Texts} \cup {Identifier(id) : id \in Identifiers}
    /\ answer = Pending
    /\ origin = Given
    /\ overflow_checks \in BOOLEAN

\* ObisIdentifier::parse(arg)
Parse ==
    /\ arg.tag = "Text"
    /\ answer = Pending
    /\ answer' = parse(arg.bytes)
    /\ UNCHANGED <<arg, origin, overflow_checks, reader>>

\* arg.to_string()
Format ==
    /\ arg.tag = "Identifier"
    /\ answer = Pending
    /\ answer' = Text(fmt(arg.id))
    /\ UNCHANGED <<arg, origin, overflow_checks, reader>>

\* the text an identifier was formatted to becomes the argument of parse
ParseBack ==
    /\ arg.tag = "Identifier"
    /\ answer /= Pending
    /\ arg' = answer
    /\ origin' = arg
    /\ answer' = Pending
    /\ UNCHANGED <<overflow_checks, reader>>

NextObis ==
    \/ Parse
    \/ Format
    \/ ParseBack

\* parse on given texts, to_string on given identifiers, parse of its result
SpecObis == InitObis /\ [][NextObis]_vars

(***************************************************************************)
(* Properties of the OBIS grammar.                                         *)
(***************************************************************************)
\* number of digits the text starts with
RECURSIVE LeadingDigits(_)
LeadingDigits(t) ==
    IF t = <<>> \/ Head(t) \notin 48..57 THEN 0
    ELSE 1 + LeadingDigits(Tail(t))

\* the text is groups of 1 to 3 digits with exactly these delimiters
\* between them, and nothing else
RECURSIVE GroupsDelimitedBy(_, _)
GroupsDelimitedBy(t, delimiters) ==
    LET k == LeadingDigits(t)
    IN  /\ k \in 1..3
        /\ IF delimiters = <<>>
             THEN Len(t) = k
             ELSE /\ Len(t) > k
                  /\ t[k + 1] = Head(delimiters)
                  /\ GroupsDelimitedBy(SubSeq(t, k + 2, Len(t)), Tail(delimiters))

\* [group '-'] [group ':'] group '.' group '.' group, without a '.f' group
MatchesWithoutF(t) ==
    \E head \in {<<>>, <<45>>, <<58>>, <<45, 58>>} :
        GroupsDelimitedBy(t, head \o <<46, 46>>)

\* [group '-'] [group ':'] group '.' group '.' group ['.' group]
MatchesGrammar(t) ==
    \/ MatchesWithoutF(t)
    \/ \E head \in {<<>>, <<45>>, <<58>>, <<45, 58>>} :
         GroupsDelimitedBy(t, head \o <<46, 46, 46>>)

\* some run of exactly 3 digits in the text is a number above 255
HasGroupAbove255(t) ==
    \E i \in 1..(Len(t) - 2) :
        /\ \A j \in i..(i + 2) : t[j] \in 48..57
        /\ i > 1 => t[i - 1] \notin 48..57
        /\ i + 2 < Len(t) => t[i + 3] \notin 48..57
        /\ 100 * (t[i] - 48) + 10 * (t[i + 1] - 48) + (t[i + 2] - 48) > 255

\* parse was given a text and returned or panicked
Parsed ==
    /\ arg.tag = "Text"
    /\ answer /= Pending

\* C16: parse returns None for every text with a group of 1 to 3 digits
\* whose value is above 255; it neither panics nor returns an identifier
C16_OverflowIsAbsent ==
    (Parsed /\ HasGroupAbove255(arg.bytes)) => answer = NoId

\* C17: parse returns None for every text that does not match
\* [group '-'] [group ':'] group '.' group '.' group ['.' group] as a whole
C17_NonMatchingIsAbsent ==
    (Parsed /\ ~MatchesGrammar(arg.bytes)) => answer = NoId

\* C18: parse(format(v)) is Some(v) for every identifier v
C18_RoundTrip ==
    (Parsed /\ origin /= Given) => answer = SomeId(origin.id)

\* C19: for a text that matches the grammar without a '.f' group, parse is
\* Some with f = 255 and equals parse of the text followed by ".255"
C19_DefaultF ==
    (/\ Parsed
     /\ MatchesWithoutF(arg.bytes)
     /\ ~HasGroupAbove255(arg.bytes))
        => /\ answer.tag = "Some"
           /\ answer.id.f = 255
           /\ answer = parse(arg.bytes \o <<46, 50, 53, 53>>)

(***************************************************************************)
(* Start markers and outcomes of the frame assembler.                      *)
(***************************************************************************)
\* number of start markers among the bytes
RECURSIVE StartMarkers(_)
StartMarkers(bytes) ==
    IF bytes = <<>> THEN 0
    ELSE (IF Head(bytes) = SLASH THEN 1 ELSE 0) + StartMarkers(Tail(bytes))

\* every outcome starts with '/' and holds no other '/'
OneMarkerPerOutcome ==
    \A i \in Outcomes :
        /\ StartMarkers(returns[i].bytes) = 1
        /\ returns[i].bytes[1] = SLASH

\* C20: in a run without I/O failure every '/' of the stream begins exactly
\* one outcome: each outcome has '/' as first byte and nowhere else, and
\* once a call of next() is over there are as many outcomes as '/' bytes
\* consumed, so as many as the stream holds when the sequence has ended
C20_OneOutcomePerStartMarker ==
    NoFailure =>
        /\ OneMarkerPerOutcome
        /\ pc \in {"idle", "panicked"}
              => Cardinality(Outcomes) = StartMarkers(SubSeq(stream, 1, pos))
        /\ Ended => Cardinality(Outcomes) = StartMarkers(stream)

(***************************************************************************)
(* Termination of the frame assembler.                                     *)
(***************************************************************************)
\* the program runs: a next() call that has a step to take takes it, and
\* the caller goes on calling next() until it has seen the end
SpecFair == Init /\ [][Next]_vars /\ WF_vars(Next)

\* a step that stays in the loop of sync_to_datagram, read_datagram or
\* read_crc_bytes consumes at least one byte
LoopsConsume ==
    [][(pc \in {"sync", "read_loop", "crc_loop"} /\ pc' = pc) => pos' > pos]_vars

\* C21: when the source does not fail, every next() call returns after
\* finitely many calls of the source, and after finitely many next()
\* calls the sequence has ended (next() has returned None)
C21_ReachesEndOfSequence ==
    /\ [](pc /= "idle" => <>(pc = "idle" \/ ~NoFailure))
    /\ <>(Ended \/ ~NoFailure)

====
